---- MODULE Spec2Model ----
(***************************************************************************)
(* Budget assessment pipeline (budget_assessment.py).                      *)
(*                                                                         *)
(*   SpecReq   one call of do_request against a server that may time out,  *)
(*             fail to connect, or answer with any status                  *)
(*   SpecDisc  list_mgs_and_subs_under_mg over a chain of descendants      *)
(*             pages                                                       *)
(*   Spec      main(): discovery, the management-group loop, the           *)
(*             subscription / resource-group loop and the workbook         *)
(*                                                                         *)
(* Python None is the empty tuple <<>>; an optional value v is <<v>>.      *)
(* Money is held in thousandths so that round(x, 2) is not the identity.   *)
(***************************************************************************)
EXTENDS Integers, Sequences, FiniteSets, TLC

None == <<>>

Some(v) == <<v>>

Min(a, b) == IF a <= b THEN a ELSE b

Max(a, b) == IF a >= b THEN a ELSE b

RECURSIVE Pow2(_)
Pow2(n) == IF n <= 0 THEN 1 ELSE 2 * Pow2(n - 1)

(***************************************************************************)
(* Resilient request client: backoff_sleep and do_request                  *)
(***************************************************************************)

\* a ceiling one retry short
MaxRetries_OffByOne == 6 - 1

\* the retry ceiling of do_request ("if attempt > 6")
MaxRetries == 6

\* statuses do_request retries on
RetryStatuses_No429 == {500, 502, 503, 504}

RetryStatuses == {429, 500, 502, 503, 504}

\* statuses the server answers with in the model: 1xx, 2xx, 3xx, 4xx, 5xx
Statuses == {100, 200, 204, 304, 400, 404, 429, 500, 501, 502, 503, 504}

Is2xx(s) == 200 <= s /\ s < 300

\* Response.raise_for_status(): raises HTTPError for 4xx and 5xx only
RaisesForStatus(s) == 400 <= s /\ s < 600

\* Retry-After header texts; NoHeader is headers.get() returning None
NoHeader == "<absent>"

RetryAfterTexts == {NoHeader, "", "0", "5", "120", "-3", "1.5", "Wed, 21 Oct 2015 07:28:00 GMT"}

\* int(text): defined on the texts of integers, ValueError on the others
\* (a decimal fraction, an HTTP-date)
IntTexts == {"0", "5", "120", "-3"}

IntOf(t) == CASE t = "0" -> 0 [] t = "5" -> 5 [] t = "120" -> 120 [] t = "-3" -> 0 - 3

\* the clamp without its floor of one second
backoff_sleep_NoFloor(retry_after_header, att) ==
    IF retry_after_header \notin {NoHeader, ""} /\ retry_after_header \in IntTexts
    THEN Min(IntOf(retry_after_header), 60)
    ELSE Min(Pow2(att), 30)

\* backoff_sleep: the number of seconds slept
backoff_sleep(retry_after_header, att) ==
    IF retry_after_header \notin {NoHeader, ""} /\ retry_after_header \in IntTexts
    THEN Max(1, Min(IntOf(retry_after_header), 60))
    ELSE Min(Pow2(att), 30)

\* what one requests.request() can end in
Outcomes ==
    {[kind |-> "ReadTimeout", status |-> 0, retryAfter |-> NoHeader, body |-> 0]}
    \cup {[kind |-> "ConnectionError", status |-> 0, retryAfter |-> NoHeader, body |-> 0]}
    \cup {[kind |-> "response", status |-> s, retryAfter |-> h, body |-> b] :
            s \in Statuses, h \in RetryAfterTexts, b \in {1, 2}}

NoError == [type |-> "none", status |-> 0]

\* the bare "raise" in the ReadTimeout handler re-raises the timeout
TimeoutError_AsHTTP == [type |-> "HTTPError", status |-> 0]

TimeoutError == [type |-> "ReadTimeout", status |-> 0]

\* the exception raise_for_status() builds from the response it is called on
HTTPError_Stale(o, prev) == [type |-> "HTTPError", status |-> IF prev.kind = "response" THEN prev.status ELSE o.status]

HTTPError(o, prev) == [type |-> "HTTPError", status |-> o.status]

VARIABLES
    rqState,   \* "running" | "returned" | "raised": where the call of do_request is
    attempt,   \* do_request's retry counter
    resp,      \* the response do_request returned, None before
    err,       \* the exception do_request raised, NoError before
    net,       \* what happened on the wire: requests, sleeps, last outcome
    args,      \* parsed command line: include_scopes, months, sub_filter, rg_filter
    pc,        \* where main() is
    url,       \* the page pointer of the running paginated listing
    mgs,       \* management groups, in dict insertion order
    subs,      \* subscriptions, in dict insertion order
    fetched,   \* the descendants items answered so far, page by page
    idx,       \* position in mgs of the management group being processed
    s_idx,     \* position in subs of the subscription being processed
    rgs,       \* resource groups of the current subscription
    rg_i,      \* position in rgs of the resource group being processed
    budgets,   \* budgets of the scope being processed
    costs,     \* the list cost_query_last_months_scope is building
    monthly,   \* the monthly series main holds for the scope
    fc,        \* the forecast total main holds for the scope, None when it failed
    rows,      \* mg_rows, sub_rows, sub_nobudget_rows, rg_rows
    wb,        \* the workbook: sheets created, saved or not
    reqlog,    \* the calls of do_request made by main, in order
    hist,      \* what the run has met: scopes entered, failed calls, budgets listed
    ndev,      \* answers so far that departed from the reference remote state
    abort,     \* the exception that left main, "none" while it runs
    calc       \* a call of a pure helper: the function, its arguments, its result

reqVars == <<rqState, attempt, resp, err, net>>

discVars == <<url, mgs, subs, fetched>>

mainVars == <<args, pc, idx, s_idx, rgs, rg_i, budgets, costs, monthly, fc, rows, wb, reqlog, hist, ndev, abort>>

vars == <<rqState, attempt, resp, err, net, args, pc, url, mgs, subs, fetched, idx, s_idx,
          rgs, rg_i, budgets, costs, monthly, fc, rows, wb, reqlog, hist, ndev, abort, calc>>

NoOutcome == [kind |-> "none", status |-> 0, retryAfter |-> NoHeader, body |-> 0]

ReqIdle ==
    /\ rqState = "running"
    /\ attempt = 0
    /\ resp = None
    /\ err = NoError
    /\ net = [nreq |-> 0, nsleep |-> 0, lastSleep |-> 0, nTimeout |-> 0, nRetryStatus |-> 0,
              lastOut |-> NoOutcome]

Sent(o) == [net EXCEPT !.nreq = @ + 1, !.lastOut = o,
                       !.nTimeout = @ + (IF o.kind = "ReadTimeout" THEN 1 ELSE 0),
                       !.nRetryStatus = @ + (IF o.kind = "response" /\ o.status \in {429, 500, 502, 503, 504} THEN 1 ELSE 0)]

Slept(n, secs) == [n EXCEPT !.nsleep = @ + 1, !.lastSleep = secs]

\* one iteration of the "while True" loop of do_request, the server answering o
Attempt(o) ==
    /\ rqState = "running"
    /\ IF o.kind = "ReadTimeout"
       THEN /\ attempt' = attempt + 1
            /\ IF attempt + 1 > MaxRetries
               THEN /\ rqState' = "raised"
                    /\ err' = TimeoutError
                    /\ net' = Sent(o)
               ELSE /\ rqState' = "running"
                    /\ err' = err
                    /\ net' = Slept(Sent(o), backoff_sleep(NoHeader, attempt + 1))
            /\ resp' = resp
       ELSE IF o.kind # "response"
       THEN /\ rqState' = "raised"
            /\ err' = [type |-> o.kind, status |-> 0]
            /\ net' = Sent(o)
            /\ UNCHANGED <<attempt, resp>>
       ELSE IF o.status \in RetryStatuses
       THEN /\ attempt' = attempt + 1
            /\ IF attempt + 1 > MaxRetries /\ RaisesForStatus(o.status)
               THEN /\ rqState' = "raised"
                    /\ err' = HTTPError(o, net.lastOut)
                    /\ net' = Sent(o)
               ELSE /\ rqState' = "running"
                    /\ err' = err
                    /\ net' = Slept(Sent(o), backoff_sleep(o.retryAfter, attempt + 1))
            /\ resp' = resp
       ELSE IF RaisesForStatus(o.status)
       THEN /\ rqState' = "raised"
            /\ err' = HTTPError(o, net.lastOut)
            /\ net' = Sent(o)
            /\ UNCHANGED <<attempt, resp>>
       ELSE /\ rqState' = "returned"
            /\ resp' = Some([status |-> o.status, body |-> o.body])
            /\ net' = Sent(o)
            /\ UNCHANGED <<attempt, err>>

do_request ==
    /\ \E o \in Outcomes : Attempt(o)
    /\ UNCHANGED discVars
    /\ UNCHANGED mainVars
    /\ UNCHANGED calc

(***************************************************************************)
(* Hierarchy discovery: list_mgs_and_subs_under_mg                         *)
(***************************************************************************)

\* the root management group given on the command line
root_mg_id == "mg-root"

\* str.lower() on the texts of the model
Lower(t) ==
    CASE t = "Microsoft.Management/managementGroups" -> "microsoft.management/managementgroups"
      [] t = "/Subscriptions" -> "/subscriptions"
      [] t = "SUB2" -> "sub2"
      [] t = "Sub2" -> "sub2"
      [] t = "RG2" -> "rg2"
      [] t = "Rg2" -> "rg2"
      [] t = "Forecasted" -> "forecasted"
      [] t = "FORECAST" -> "forecast"
      [] t = "Actual" -> "actual"
      [] t = "True" -> "true"
      [] t = "TRUE" -> "true"
      [] t = "False" -> "false"
      [] t = "Yes" -> "yes"
      [] OTHER -> t

\* t.endswith("/subscriptions") and t.endswith("/managementgroups")
EndsWithSubscriptions(t) == t \in {"/subscriptions"}

EndsWithManagementGroups(t) == t \in {"microsoft.management/managementgroups"}

\* d[key] = val on an insertion-ordered dict kept as a sequence of [key, val]:
\* an existing key keeps its place and takes the new value
DictPut_KeepFirst(d, key, val) ==
    IF \E i \in DOMAIN d : d[i].key = key
    THEN d
    ELSE Append(d, [key |-> key, val |-> val])

\* an existing key moved to the end with its new value (a delete and re-insert)
DictPut_MoveToEnd(d, key, val) ==
    Append(SelectSeq(d, LAMBDA e : e.key # key), [key |-> key, val |-> val])

DictPut(d, key, val) ==
    IF \E i \in DOMAIN d : d[i].key = key
    THEN [i \in DOMAIN d |-> IF d[i].key = key THEN [key |-> key, val |-> val] ELSE d[i]]
    ELSE Append(d, [key |-> key, val |-> val])

HasKey(d, key) == \E i \in DOMAIN d : d[i].key = key

\* list(d.values())
Values(d) == [i \in DOMAIN d |-> d[i].val]

\* the "for item in payload['value']" loop over one page
RECURSIVE ClassifyItems(_, _)
ClassifyItems(items, acc) ==
    IF items = <<>> THEN acc
    ELSE LET item == Head(items)
             t == Lower(item.type)
             step ==
                 IF EndsWithSubscriptions(t)
                 THEN IF item.name # ""
                      THEN [acc EXCEPT !.subs = DictPut(@, item.name,
                               [subscriptionId |-> item.name,
                                displayName |-> item.displayName,
                                tenantId |-> item.tenantId])]
                      ELSE acc
                 ELSE IF EndsWithManagementGroups(t)
                 THEN IF item.name # ""
                      THEN [acc EXCEPT !.mgs = DictPut(@, item.name,
                               [managementGroupId |-> item.name,
                                displayName |-> item.displayName])]
                      ELSE acc
                 ELSE acc
         IN ClassifyItems(Tail(items), step)

\* the root left out when no page lists it
EnsureRoot_Never(d) == d

\* "if mg_id not in mgs": the root is added last when the API did not list it
EnsureRoot(d) ==
    IF HasKey(d, root_mg_id) THEN d
    ELSE DictPut(d, root_mg_id, [managementGroupId |-> root_mg_id, displayName |-> root_mg_id])

FirstPage == "first"

\* every request sent as a POST
MethodOf_AllPost(kind) == "POST"

\* the method each call site passes to do_request
MethodOf(kind) ==
    CASE kind \in {"descendants", "resourcegroups", "budgets"} -> "GET"
      [] kind \in {"cost", "forecast"} -> "POST"

\* the resource each call site addresses
ApiOf(kind) ==
    CASE kind = "descendants" -> "Microsoft.Management/managementGroups/descendants"
      [] kind = "resourcegroups" -> "resourcegroups"
      [] kind = "budgets" -> "Microsoft.Consumption/budgets"
      [] kind \in {"cost", "forecast"} -> "Microsoft.CostManagement/query"

\* a call of do_request by main: what is asked, of which scope, at which page or month
Logged(kind, scope, page, month) ==
    Append(reqlog, [kind |-> kind, scope |-> scope, page |-> page, month |-> month,
                    method |-> MethodOf(kind), api |-> ApiOf(kind)])

\* a page answered to a paged listing, as the run saw it
Paged(kind, scope, page) ==
    Append(hist.pages, [kind |-> kind, scope |-> scope, value |-> page.value, nextLink |-> page.nextLink])

\* the nextLink dropped: the listing ends with its first page
NextUrl_Stop(page) == ""

\* url = payload.get("nextLink") or None
NextUrl(page) == page.nextLink

\* one iteration of the page loop, do_request having returned the page; on
\* the last page the function returns list(mgs.values()), list(subs.values())
DescendantsPage(page) ==
    /\ pc = "descendants"
    /\ reqlog' = Logged("descendants", <<"managementGroups", root_mg_id>>, url, 0)
    /\ fetched' = Append(fetched, page.value)
    /\ hist' = [hist EXCEPT !.pages = Paged("descendants", <<"managementGroups", root_mg_id>>, page)]
    /\ LET acc == ClassifyItems(page.value, [mgs |-> mgs, subs |-> subs])
       IN IF NextUrl(page) # ""
          THEN /\ url' = NextUrl(page)
               /\ mgs' = acc.mgs
               /\ subs' = acc.subs
               /\ pc' = "descendants"
          ELSE /\ url' = ""
               /\ mgs' = Values(EnsureRoot(acc.mgs))
               /\ subs' = Values(acc.subs)
               /\ pc' = "discovered"
    /\ UNCHANGED <<args, idx, s_idx, rgs, rg_i, budgets, costs, monthly, fc, rows, wb, abort>>
    /\ UNCHANGED <<reqVars, calc>>

\* do_request raised inside the page loop and main has no handler around the
\* discovery call: the exception leaves main
DescendantsFail_Swallowed(exc) ==
    /\ pc = "descendants"
    /\ reqlog' = Logged("descendants", <<"managementGroups", root_mg_id>>, url, 0)
    /\ hist' = [hist EXCEPT !.failed = Append(@, [kind |-> "descendants",
                                                  scope |-> <<"managementGroups", root_mg_id>>])]
    /\ pc' = "discovered"
    /\ url' = ""
    /\ mgs' = <<>>
    /\ subs' = <<>>
    /\ UNCHANGED <<args, fetched, idx, s_idx, rgs, rg_i, budgets, costs, monthly, fc, rows, wb, abort>>
    /\ UNCHANGED <<reqVars, calc>>

DescendantsFail(exc) ==
    /\ pc = "descendants"
    /\ reqlog' = Logged("descendants", <<"managementGroups", root_mg_id>>, url, 0)
    /\ hist' = [hist EXCEPT !.failed = Append(@, [kind |-> "descendants",
                                                  scope |-> <<"managementGroups", root_mg_id>>])]
    /\ pc' = "aborted"
    /\ abort' = exc
    /\ UNCHANGED <<args, url, mgs, subs, fetched, idx, s_idx, rgs, rg_i, budgets, costs, monthly, fc, rows, wb>>
    /\ UNCHANGED <<reqVars, calc>>

(***************************************************************************)
(* JSON values, budgets and the pure helpers of the assessment             *)
(***************************************************************************)

\* a JSON scalar: a number (in thousandths), a text, or null
Num(n) == [t |-> "num", n |-> n, s |-> ""]

Str(x) == [t |-> "str", n |-> 0, s |-> x]

Null == [t |-> "null", n |-> 0, s |-> ""]

\* a cost row that has no first column: row[0] raises IndexError
EmptyRow == [t |-> "empty", n |-> 0, s |-> ""]

\* Python truthiness of a JSON scalar
Truthy(v) == ~(v.t = "null" \/ (v.t = "str" /\ v.s = "") \/ (v.t = "num" /\ v.n = 0))

\* float(v) raises: no text of the model is a numeral, and float(None) is a TypeError
FloatRaises(v) == v.t \in {"str", "null"}

\* round(x, 2) on thousandths: to the nearest hundredth, ties to even
Round2(x) ==
    LET q == x \div 10
        r == x % 10
    IN IF r < 5 THEN q * 10
       ELSE IF r > 5 THEN (q + 1) * 10
       ELSE IF q % 2 = 0 THEN q * 10 ELSE (q + 1) * 10

\* the order of str values under <, as a rank
TypeRank(s) ==
    CASE s = "" -> 0
      [] s = "Actual" -> 1
      [] s = "FORECAST" -> 2
      [] s = "Forecasted" -> 3
      [] s = "actual" -> 4
      [] s = "forecasted" -> 5
      [] OTHER -> 6

StartsWithForecast(s) == s \in {"forecast", "forecasted"}

\* the dict entries of a notifications mapping, in mapping order
RECURSIVE DictConditions(_)
DictConditions(notifs) ==
    IF notifs = <<>> THEN <<>>
    ELSE IF Head(notifs).isDict
         THEN <<[ConditionKey |-> Head(notifs).key,
                 ThresholdType |-> Head(notifs).thresholdType,
                 ThresholdPercent |-> Head(notifs).threshold]>> \o DictConditions(Tail(notifs))
         ELSE DictConditions(Tail(notifs))

\* float(r.get("ThresholdPercent") or 0)
SortPercent(c) == IF Truthy(c.ThresholdPercent) THEN c.ThresholdPercent.n ELSE 0

\* the sort key (ThresholdType, percent) of a precedes that of b
KeyLess(a, b) ==
    LET ra == IF a.ThresholdType.t = "str" THEN TypeRank(a.ThresholdType.s) ELSE 0
        rb == IF b.ThresholdType.t = "str" THEN TypeRank(b.ThresholdType.s) ELSE 0
    IN ra < rb \/ (ra = rb /\ SortPercent(a) < SortPercent(b))

\* list.sort is stable: c goes after every element that is not greater
RECURSIVE InsertSorted(_, _)
InsertSorted(sorted, c) ==
    IF sorted = <<>> THEN <<c>>
    ELSE IF KeyLess(c, Head(sorted)) THEN <<c>> \o sorted
         ELSE <<Head(sorted)>> \o InsertSorted(Tail(sorted), c)

RECURSIVE SortConditions(_, _)
SortConditions(out, acc) ==
    IF out = <<>> THEN acc ELSE SortConditions(Tail(out), InsertSorted(acc, Head(out)))

\* out.sort raises: a threshold that float() rejects, or ThresholdType values of
\* different types (None against str) that < cannot compare
FlattenRaises(notifs) ==
    LET out == DictConditions(notifs)
    IN \/ \E i \in DOMAIN out : Truthy(out[i].ThresholdPercent) /\ FloatRaises(out[i].ThresholdPercent)
       \/ \E i, j \in DOMAIN out : out[i].ThresholdType.t # out[j].ThresholdType.t

flatten_notifications_Unsorted(notifs) == DictConditions(notifs)

flatten_notifications(notifs) == SortConditions(DictConditions(notifs), <<>>)

\* a float result kept as an exact fraction
Frac(num, den) == [num |-> num, den |-> den]

Abs(x) == IF x < 0 THEN -x ELSE x

\* the distance divided by the budget in place of the larger of the two
budget_accuracy_ByBudget(budget, actual) ==
    IF budget <= 0 /\ actual <= 0 THEN Frac(1, 1)
    ELSE IF budget <= 0 \/ actual <= 0 THEN Frac(0, 1)
    ELSE Frac(budget - Abs(budget - actual), budget)

\* budget_accuracy: 1.0 - abs(budget - actual) / max(budget, actual)
budget_accuracy(budget, actual) ==
    IF budget <= 0 /\ actual <= 0 THEN Frac(1, 1)
    ELSE IF budget <= 0 \/ actual <= 0 THEN Frac(0, 1)
    ELSE Frac(Max(budget, actual) - Abs(budget - actual), Max(budget, actual))

BUDGET_HEADROOM_PCT == 10

BUDGET_ROUND_TO == 100

RECURSIVE Sum(_)
Sum(xs) == IF xs = <<>> THEN 0 ELSE Head(xs) + Sum(Tail(xs))

\* the exponent of the binary64 number n >= 1: the largest e with 2^e <= n
RECURSIVE Exponent(_)
Exponent(n) == IF n < 2 THEN 0 ELSE 1 + Exponent(n \div 2)

\* math.ceil of num / den (num >= 0, den > 0)
CeilDiv(num, den) == (num + den - 1) \div den

\* max(value, (value + sum(prev_two)) / (1 + len(prev_two))), as a fraction
Baseline(value, prev_two) ==
    IF value * (1 + Len(prev_two)) >= value + Sum(prev_two)
    THEN Frac(value, 1)
    ELSE Frac(value + Sum(prev_two), 1 + Len(prev_two))

\* baseline * (1.0 + 0.10) in binary64 lies above the exact product N = 1.1 * B.
\* 1.0 + 0.10 is the double 1.1 + 2^-51 / 5, so the exact double product is
\* N + B * 2^-51 / 5; with 2^e <= N < 2^(e+1) the doubles around N are
\* 2^(e-52) apart, and the product rounds to the double above N exactly
\* when B * 2^-51 / 5 > 2^(e-53), that is when 4 * B > 5 * 2^e. It matters
\* to the ceiling only when N is a multiple of BUDGET_ROUND_TO.
ProductExceeds(b) ==
    /\ b.den = 1
    /\ b.num > 0
    /\ (b.num * (100 + BUDGET_HEADROOM_PCT)) % (100 * BUDGET_ROUND_TO) = 0
    /\ 4 * b.num > 5 * Pow2(Exponent((b.num * (100 + BUDGET_HEADROOM_PCT)) \div 100))

\* compute_suggested_budget: math.ceil(suggestion / 100) * 100 of the float product
compute_suggested_budget(value, prev_two) ==
    LET b == Baseline(value, prev_two)
        exact == CeilDiv(b.num * (100 + BUDGET_HEADROOM_PCT), 100 * BUDGET_ROUND_TO * b.den)
    IN (IF ProductExceeds(b) THEN exact + 1 ELSE exact) * BUDGET_ROUND_TO

\* datetime.date and dateutil.relativedelta
Date(y, m, d) == [y |-> y, m |-> m, d |-> d]

IsLeap(y) == (y % 4 = 0 /\ y % 100 # 0) \/ y % 400 = 0

DaysIn(y, m) ==
    IF m = 2 THEN (IF IsLeap(y) THEN 29 ELSE 28)
    ELSE IF m \in {4, 6, 9, 11} THEN 30 ELSE 31

\* the month before with the year left as it is
MinusMonth_SameYear(dt) ==
    LET m == IF dt.m = 1 THEN 12 ELSE dt.m - 1
    IN Date(dt.y, m, Min(dt.d, DaysIn(dt.y, m)))

\* dt - relativedelta(months=1): the day is cut to the length of the month
MinusMonth(dt) ==
    LET y == IF dt.m = 1 THEN dt.y - 1 ELSE dt.y
        m == IF dt.m = 1 THEN 12 ELSE dt.m - 1
    IN Date(y, m, Min(dt.d, DaysIn(y, m)))

\* dt + relativedelta(months=1)
PlusMonth(dt) ==
    LET y == IF dt.m = 12 THEN dt.y + 1 ELSE dt.y
        m == IF dt.m = 12 THEN 1 ELSE dt.m + 1
    IN Date(y, m, Min(dt.d, DaysIn(y, m)))

\* dt - timedelta(days=1)
MinusDay(dt) ==
    IF dt.d > 1 THEN Date(dt.y, dt.m, dt.d - 1)
    ELSE IF dt.m > 1 THEN Date(dt.y, dt.m - 1, DaysIn(dt.y, dt.m - 1))
    ELSE Date(dt.y - 1, 12, 31)

\* dt + timedelta(days=1)
PlusDay(dt) ==
    IF dt.d < DaysIn(dt.y, dt.m) THEN Date(dt.y, dt.m, dt.d + 1)
    ELSE IF dt.m < 12 THEN Date(dt.y, dt.m + 1, 1)
    ELSE Date(dt.y + 1, 1, 1)

\* the "for _ in range(n)" loop from month_cursor on
RECURSIVE Windows(_, _)
Windows(month_cursor, n) ==
    IF n <= 0 THEN <<>>
    ELSE LET start == [month_cursor EXCEPT !.d = 1]
             end == MinusDay(PlusMonth(start))
         IN <<[start |-> start, end |-> end]>> \o Windows(MinusMonth(start), n - 1)

\* first_last_day_of_last_n_months with date.today() = today
first_last_day_of_last_n_months(today, n) ==
    Windows(MinusMonth([today EXCEPT !.d = 1]), n)

\* the timePeriod cost_query_last_months_scope asks for: from start, to end + 1 day
TimePeriods(today, n) ==
    LET periods == first_last_day_of_last_n_months(today, n)
    IN [k \in DOMAIN periods |-> [from |-> periods[k].start, to |-> PlusDay(periods[k].end)]]

\* mg_last / sub_last / rg_last: the first month when there is one and it is not None
LastOf(series) == IF series # <<>> /\ series[1] # None THEN series[1] ELSE None

\* [c for c in monthly[1:3] if c is not None]
RECURSIVE NotNone(_)
NotNone(xs) ==
    IF xs = <<>> THEN <<>>
    ELSE IF Head(xs) = None THEN NotNone(Tail(xs)) ELSE <<Head(xs)[1]>> \o NotNone(Tail(xs))

Prev2Of(series) == NotNone(SubSeq(series, 2, Min(3, Len(series))))

BudgetNote == "Suggestions = max(value, 3-mo avg) + 10 percent headroom, rounded."

NoBudgetNote == "No budget configured at this scope. Suggestions = max(value, 3-mo avg) + 10 percent headroom, rounded."

\* num / den rounded to the nearest integer, ties to even (num >= 0, den > 0)
RoundHalfEven(num, den) ==
    LET q == num \div den
        r == num % den
    IN IF 2 * r < den THEN q
       ELSE IF 2 * r > den THEN q + 1
       ELSE IF q % 2 = 0 THEN q ELSE q + 1

\* round((x / float(amount)) * 100, 2), in thousandths of a percent
PercentOf(x, amount) == RoundHalfEven(x * 10000, amount) * 10

\* forecast_percent_of_budget: "" unless forecast_total and amount are truthy
ForecastPercent(forecast_total, amount) ==
    IF forecast_total # None /\ forecast_total # Some(0) /\ Truthy(amount) /\ ~FloatRaises(amount)
    THEN Some(PercentOf(forecast_total[1], amount.n))
    ELSE None

\* the comparison made with > in place of >=
WillTrigger_Strict(cond, fpob) ==
    IF cond # None /\ StartsWithForecast(Lower(cond[1].ThresholdType.s))
          /\ fpob # None /\ cond[1].ThresholdPercent.t # "null"
          /\ ~FloatRaises(cond[1].ThresholdPercent)
    THEN IF fpob[1] > cond[1].ThresholdPercent.n THEN "True" ELSE "False"
    ELSE ""

\* will_trigger: str(float(percent) >= float(threshold)) for a forecast
\* condition when both are there and float() accepts the threshold, else ""
WillTrigger(cond, fpob) ==
    IF cond # None /\ StartsWithForecast(Lower(cond[1].ThresholdType.s))
    THEN IF fpob # None /\ cond[1].ThresholdPercent.t # "null"
         THEN IF FloatRaises(cond[1].ThresholdPercent) THEN ""
              ELSE IF fpob[1] >= cond[1].ThresholdPercent.n THEN "True" ELSE "False"
         ELSE ""
    ELSE ""

\* one report row; "" of the workbook is None here for the fields that hold numbers
Row(scope_type, scope_id, sub_name, sub_id, resource_group, budget_name, amount, cond, last_val, prev_two, forecast_total, fpob, will_trigger, note) ==
    [ScopeType |-> scope_type,
     ScopeId |-> scope_id,
     SubscriptionName |-> sub_name,
     SubscriptionId |-> sub_id,
     ResourceGroup |-> resource_group,
     BudgetName |-> budget_name,
     BudgetAmount |-> amount,
     ConditionKey |-> IF cond # None THEN cond[1].ConditionKey ELSE "",
     ThresholdType |-> IF cond # None THEN cond[1].ThresholdType ELSE Str(""),
     ThresholdPercent |-> IF cond # None THEN cond[1].ThresholdPercent ELSE Str(""),
     LastMonthCost |-> last_val,
     PrevMonthCost |-> IF Len(prev_two) > 0 THEN Some(prev_two[1]) ELSE None,
     Prev2MonthCost |-> IF Len(prev_two) > 1 THEN Some(prev_two[2]) ELSE None,
     CurrentMonthForecastTotal |-> forecast_total,
     ForecastPercentOfBudget |-> fpob,
     ForecastConditionWillTrigger |-> will_trigger,
     SuggestionNote |-> note]

\* the "for cond in conditions" loop: a row per condition, until a condition
\* whose ThresholdType has no .lower() or an amount float() rejects raises
RECURSIVE ConditionRows(_, _, _, _, _, _, _, _, _, _, _)
ConditionRows(conditions, rows_list, scope_type, scope_id, sub_name, sub_id, budget, last_val, prev_two, forecast_total, resource_group) ==
    IF conditions = <<>> THEN [rows |-> rows_list, raised |-> FALSE]
    ELSE LET cond == Head(conditions)
         IN IF cond # None /\ cond[1].ThresholdType.t # "str"
            THEN [rows |-> rows_list, raised |-> TRUE]
            ELSE IF budget.amount.t # "null" /\ FloatRaises(budget.amount)
            THEN [rows |-> rows_list, raised |-> TRUE]
            ELSE ConditionRows(Tail(conditions),
                     Append(rows_list,
                         Row(scope_type, scope_id, sub_name, sub_id, resource_group, budget.name,
                             IF budget.amount.t = "null" THEN None ELSE Some(Round2(budget.amount.n)),
                             cond, last_val, prev_two, forecast_total,
                             ForecastPercent(forecast_total, budget.amount),
                             WillTrigger(cond, ForecastPercent(forecast_total, budget.amount)),
                             BudgetNote)),
                     scope_type, scope_id, sub_name, sub_id, budget,
                     last_val, prev_two, forecast_total, resource_group)

\* emit_budget_rows: the rows list after the call, and whether it raised
emit_budget_rows(rows_list, scope_type, scope_id, sub_name, sub_id, budget, last_val, prev_two, forecast_total, resource_group) ==
    IF FlattenRaises(budget.notifications)
    THEN [rows |-> rows_list, raised |-> TRUE]
    ELSE IF /\ Truthy(budget.amount)
            /\ FloatRaises(budget.amount)
            /\ (last_val # None \/ (forecast_total # None /\ forecast_total # Some(0)))
    THEN [rows |-> rows_list, raised |-> TRUE]
    ELSE LET flat == flatten_notifications(budget.notifications)
             conditions == IF flat = <<>> THEN <<None>> ELSE [i \in DOMAIN flat |-> Some(flat[i])]
         IN ConditionRows(conditions, rows_list, scope_type, scope_id, sub_name, sub_id, budget,
                          last_val, prev_two, forecast_total, resource_group)

\* "for b in budgets: emit_budget_rows(...)": stops at the first call that raises
RECURSIVE EmitAll(_, _, _, _, _, _, _, _, _, _)
EmitAll(bs, rows_list, scope_type, scope_id, sub_name, sub_id, last_val, prev_two, forecast_total, resource_group) ==
    IF bs = <<>> THEN [rows |-> rows_list, raised |-> FALSE]
    ELSE LET r == emit_budget_rows(rows_list, scope_type, scope_id, sub_name, sub_id, Head(bs),
                                   last_val, prev_two, forecast_total, resource_group)
         IN IF r.raised THEN r
            ELSE EmitAll(Tail(bs), r.rows, scope_type, scope_id, sub_name, sub_id, last_val,
                         prev_two, forecast_total, resource_group)

\* the sum over the rows of a cost answer: non-numeric values add nothing
RECURSIVE SumRows(_)
SumRows(rs) ==
    IF rs = <<>> THEN 0
    ELSE (IF Head(rs).t = "num" THEN Head(rs).n ELSE 0) + SumRows(Tail(rs))

\* row[0] on a row without columns: IndexError, which the function does not catch
CostRowsRaise(rs) == \E i \in DOMAIN rs : rs[i].t = "empty"

\* the forecast total: with both columns, the rows flagged as forecast; otherwise all rows
RECURSIVE SumForecast(_, _)
SumForecast(rs, flagged) ==
    IF rs = <<>> THEN 0
    ELSE (IF (~flagged \/ Lower(Head(rs).isfc) \in {"true", "1", "yes"}) /\ Head(rs).cost.t = "num"
          THEN Head(rs).cost.n ELSE 0)
         + SumForecast(Tail(rs), flagged)

ForecastTotal(payload) == Round2(SumForecast(payload.rows, payload.hasCost /\ payload.hasIsForecast))

(***************************************************************************)
(* The remote state the run reads                                          *)
(***************************************************************************)

\* most months a run asks for (--months)
MaxMonths == 3

\* most answers of one run that depart from the reference remote state
MaxDeviations == 1

\* largest budget and cost budget_accuracy is called on in SpecCalc
MaxAmount == 8

\* largest value, in hundreds, compute_suggested_budget is called on in SpecCalc
MaxHundreds == 30

\* most months the windows are computed for in SpecCalc
MaxWindows == 14

\* most pages of a descendants chain in SpecDisc
MaxPages == 2

\* most items the pages of a chain carry together in SpecDisc
MaxItems == 3

Item(type, name, displayName) ==
    [type |-> type, name |-> name, displayName |-> displayName, tenantId |-> "tenant-1"]

B0 == [name |-> "b0", amount |-> Num(100000), notifications |-> <<>>]

B1 == [name |-> "b1", amount |-> Num(200004),
       notifications |-> <<[key |-> "n1", isDict |-> TRUE, thresholdType |-> Str("Actual"),
                            threshold |-> Num(80000)]>>]

B3 == [name |-> "b3", amount |-> Num(100000),
       notifications |->
           <<[key |-> "n1", isDict |-> TRUE, thresholdType |-> Str("Forecasted"), threshold |-> Num(90000)],
             [key |-> "n2", isDict |-> TRUE, thresholdType |-> Str("Actual"), threshold |-> Num(100000)],
             [key |-> "n3", isDict |-> FALSE, thresholdType |-> Str(""), threshold |-> Null],
             [key |-> "n4", isDict |-> TRUE, thresholdType |-> Str("Actual"), threshold |-> Num(50000)]>>]

\* forecast conditions: above the forecast, at it, without a threshold, with ""
B4 == [name |-> "b4", amount |-> Num(100000),
       notifications |->
           <<[key |-> "n1", isDict |-> TRUE, thresholdType |-> Str("FORECAST"), threshold |-> Num(99000)],
             [key |-> "n2", isDict |-> TRUE, thresholdType |-> Str("Forecasted"), threshold |-> Num(95200)],
             [key |-> "n3", isDict |-> TRUE, thresholdType |-> Str("forecasted"), threshold |-> Null],
             [key |-> "n4", isDict |-> TRUE, thresholdType |-> Str("forecast"), threshold |-> Str("")]>>]

\* budgets with a field of the wrong type
BadAmount == [name |-> "b-amount", amount |-> Str("abc"),
              notifications |-> <<[key |-> "n1", isDict |-> TRUE, thresholdType |-> Str("Actual"),
                                   threshold |-> Num(80000)]>>]

BadThreshold == [name |-> "b-threshold", amount |-> Num(100000),
                 notifications |-> <<[key |-> "n1", isDict |-> TRUE, thresholdType |-> Str("Actual"),
                                      threshold |-> Str("abc")]>>]

NullType == [name |-> "b-type", amount |-> Null,
             notifications |-> <<[key |-> "n1", isDict |-> TRUE, thresholdType |-> Null,
                                  threshold |-> Num(80000)]>>]

\* what a budgets listing may answer
BudgetLists == {<<>>, <<B0, B1>>, <<B3>>, <<B1>>, <<B4>>, <<BadAmount>>, <<B1, BadThreshold>>, <<NullType>>}

CostAnswers == {<<>>, <<Num(5554), Str("abc"), Null>>, <<EmptyRow>>}

FlaggedForecast ==
    [hasCost |-> TRUE, hasIsForecast |-> TRUE,
     rows |-> <<[cost |-> Num(30000), isfc |-> "False"], [cost |-> Num(95204), isfc |-> "True"]>>]

ForecastAnswers ==
    {[hasCost |-> TRUE, hasIsForecast |-> FALSE,
      rows |-> <<[cost |-> Num(30000), isfc |-> ""], [cost |-> Str("abc"), isfc |-> ""]>>],
     [hasCost |-> TRUE, hasIsForecast |-> TRUE, rows |-> <<[cost |-> Num(30000), isfc |-> "no"]>>]}

\* the reference remote state: the hierarchy, and what each scope holds
RefDescendants(u) ==
    IF u = "first"
    THEN [value |-> <<Item("Microsoft.Management/managementGroups", "mgA", "Group A"),
                      Item("/subscriptions", "sub1", "Alpha")>>,
          nextLink |-> "page2"]
    ELSE [value |-> <<Item("/subscriptions", "SUB2", "Beta"),
                      Item("/subscriptions", "sub1", "Alpha")>>,
          nextLink |-> ""]

DescendantsAnswers == {[value |-> <<>>, nextLink |-> ""]}

RefResourceGroups(sub_id, u) ==
    IF sub_id = "sub1" /\ u = "first" THEN [value |-> <<"rg1">>, nextLink |-> "page2"]
    ELSE IF sub_id = "sub1" THEN [value |-> <<"RG2">>, nextLink |-> ""]
    ELSE [value |-> <<"rg1">>, nextLink |-> ""]

ResourceGroupAnswers == {[value |-> <<"", "RG2">>, nextLink |-> ""]}

RefBudgets(scope) ==
    CASE scope = <<"managementGroups", root_mg_id>> -> <<B3>>
      [] scope = <<"subscriptions", "sub1">> -> <<B0, B1>>
      [] scope = <<"subscriptions", "sub1", "resourceGroups", "rg1">> -> <<B1>>
      [] scope = <<"subscriptions", "SUB2", "resourceGroups", "rg1">> -> <<B3>>
      [] OTHER -> <<>>

RefCost(scope, k) == <<Num(k * 10000 + 4), Num(Len(scope) * 1000)>>

RefForecast(scope) == FlaggedForecast

\* the items a descendants page is made of in SpecDisc
DiscItems ==
    {Item("/Subscriptions", "sub1", "Alpha"),
     Item("/subscriptions", "sub1", "Alpha renamed"),
     Item("/subscriptions", "SUB2", "Beta"),
     Item("Microsoft.Management/managementGroups", "mgA", "Group A"),
     Item("Microsoft.Management/managementGroups", "mgA", "Group A renamed"),
     Item("Microsoft.Management/managementGroups", root_mg_id, "Root"),
     Item("Microsoft.Resources/other", "x", "Other")}

SeqsUpTo(S, n) == UNION {[1..k -> S] : k \in 0..n}

RECURSIVE Concat(_)
Concat(pages) == IF pages = <<>> THEN <<>> ELSE Head(pages) \o Concat(Tail(pages))

\* a page of the chain: the last one allowed by MaxPages has no nextLink, and
\* the chain carries at most MaxItems items
DiscPages(pagesSoFar) ==
    {[value |-> v, nextLink |-> l] :
        v \in SeqsUpTo(DiscItems, MaxItems - Len(Concat(pagesSoFar))),
        l \in IF Len(pagesSoFar) + 1 < MaxPages THEN {"", "page2", "page3"} ELSE {""}}

(***************************************************************************)
(* main()                                                                  *)
(***************************************************************************)

NoRows == [mg_rows |-> <<>>, sub_rows |-> <<>>, sub_nobudget_rows |-> <<>>, rg_rows |-> <<>>]

NoHist == [visited |-> <<>>, failed |-> <<>>, listed |-> {}, empty |-> {}, found |-> <<>>, pages |-> <<>>]

\* no pure helper is being called
NoDate == [y |-> 0, m |-> 0, d |-> 0]

NoCalc == [fn |-> "none", x |-> 0, y |-> 0, prev |-> <<>>, today |-> NoDate, n |-> 0,
           out |-> <<>>, done |-> FALSE]

\* the state of main before its first statement, the arguments parsed
MainIdle ==
    /\ pc = "start"
    /\ url = ""
    /\ mgs = <<>>
    /\ subs = <<>>
    /\ fetched = <<>>
    /\ idx = 0
    /\ s_idx = 0
    /\ rgs = <<>>
    /\ rg_i = 0
    /\ budgets = <<>>
    /\ costs = <<>>
    /\ monthly = <<>>
    /\ fc = None
    /\ rows = NoRows
    /\ wb = [saved |-> FALSE, sheets |-> <<>>]
    /\ reqlog = <<>>
    /\ hist = NoHist
    /\ ndev = 0
    /\ abort = "none"

\* parse_args and the normalisation of the two filters
ArgSets ==
    {[include_scopes |-> inc, months |-> m,
      sub_filter |-> {Lower(x) : x \in sf},
      rg_filter |-> {Lower(x) : x \in rf}] :
        inc \in SUBSET {"mg", "sub", "rg"},
        m \in {0, MaxMonths},
        sf \in {{}, {"Sub2"}},
        rf \in {{}, {"Rg2"}}}

Init ==
    /\ ReqIdle
    /\ MainIdle
    /\ args \in ArgSets
    /\ calc = NoCalc

InitReq ==
    /\ ReqIdle
    /\ MainIdle
    /\ args = [include_scopes |-> {}, months |-> 0, sub_filter |-> {}, rg_filter |-> {}]
    /\ calc = NoCalc

InitDisc ==
    /\ ReqIdle
    /\ args = [include_scopes |-> {"mg", "sub", "rg"}, months |-> 0, sub_filter |-> {}, rg_filter |-> {}]
    /\ pc = "descendants"
    /\ url = "first"
    /\ mgs = <<>>
    /\ subs = <<>>
    /\ fetched = <<>>
    /\ idx = 0
    /\ s_idx = 0
    /\ rgs = <<>>
    /\ rg_i = 0
    /\ budgets = <<>>
    /\ costs = <<>>
    /\ monthly = <<>>
    /\ fc = None
    /\ rows = NoRows
    /\ wb = [saved |-> FALSE, sheets |-> <<>>]
    /\ reqlog = <<>>
    /\ hist = NoHist
    /\ ndev = 0
    /\ abort = "none"
    /\ calc = NoCalc

\* the labels of the steps made for a scope of tier t
P(t, stage) ==
    CASE t = "mg" /\ stage = "budgets" -> "mg_budgets"
      [] t = "mg" /\ stage = "cost" -> "mg_cost"
      [] t = "mg" /\ stage = "forecast" -> "mg_forecast"
      [] t = "mg" /\ stage = "emit" -> "mg_emit"
      [] t = "sub" /\ stage = "budgets" -> "sub_budgets"
      [] t = "sub" /\ stage = "cost" -> "sub_cost"
      [] t = "sub" /\ stage = "forecast" -> "sub_forecast"
      [] t = "sub" /\ stage = "emit" -> "sub_emit"
      [] t = "rg" /\ stage = "budgets" -> "rg_budgets"
      [] t = "rg" /\ stage = "cost" -> "rg_cost"
      [] t = "rg" /\ stage = "forecast" -> "rg_forecast"
      [] t = "rg" /\ stage = "emit" -> "rg_emit"

At(label, i, s, r) == [pc |-> label, idx |-> i, s_idx |-> s, rg_i |-> r]

\* the subscription loop from subscription s on: the first call it makes
StartSubs(s, subsList) ==
    IF s <= Len(subsList) /\ "sub" \in args.include_scopes THEN At("sub_budgets", 0, s, 0)
    ELSE IF s <= Len(subsList) /\ "rg" \in args.include_scopes THEN At("rg_list", 0, s, 0)
    ELSE At("write", 0, 0, 0)

\* the management-group loop from group i on
StartMGs(i, subsList) ==
    IF "mg" \in args.include_scopes /\ i <= Len(mgs) THEN At("mg_budgets", i, 0, 0)
    ELSE StartSubs(1, subsList)

\* the resource-group loop of the current subscription from group r on
StartRGs(r, rgList) ==
    IF r <= Len(rgList) THEN At("rg_budgets", 0, s_idx, r)
    ELSE StartSubs(s_idx + 1, subs)

\* what follows the scope of tier t being processed
NextScope(t) ==
    CASE t = "mg" -> StartMGs(idx + 1, subs)
      [] t = "sub" -> IF "rg" \in args.include_scopes
                      THEN At("rg_list", 0, s_idx, 0)
                      ELSE StartSubs(s_idx + 1, subs)
      [] t = "rg" -> StartRGs(rg_i + 1, rgs)

\* control moves to p; the locals of the scope left behind are dropped
Leave(p, rgList) ==
    /\ pc' = p.pc
    /\ idx' = p.idx
    /\ s_idx' = p.s_idx
    /\ rg_i' = p.rg_i
    /\ url' = IF p.pc = "rg_list" THEN "first" ELSE ""
    /\ rgs' = IF p.pc \in {"rg_budgets", "rg_cost", "rg_forecast", "rg_emit"} THEN rgList ELSE <<>>
    /\ budgets' = <<>>
    /\ costs' = <<>>
    /\ monthly' = <<>>
    /\ fc' = None

\* an exception no handler of main catches: main ends with it
Uncaught(exc) ==
    /\ pc' = "aborted"
    /\ abort' = exc
    /\ UNCHANGED <<idx, s_idx, rg_i, url, rgs, budgets, costs, monthly, fc>>

\* the exceptions a call of do_request can raise, and IndexError from a payload
ErrorTypes == {"HTTPError", "ReadTimeout", "ConnectionError"}

\* "except Exception" around each per-scope call catches all of them
Catches_OnlyHTTPError(exc) == exc = "HTTPError"

Catches(exc) == exc \in {"HTTPError", "ReadTimeout", "ConnectionError", "IndexError"}

CurSub == subs[s_idx]

\* mg_scope, sub_scope, rg_scope
CurScope(t) ==
    CASE t = "mg" -> <<"managementGroups", mgs[idx].managementGroupId>>
      [] t = "sub" -> <<"subscriptions", CurSub.subscriptionId>>
      [] t = "rg" -> <<"subscriptions", CurSub.subscriptionId, "resourceGroups", rgs[rg_i]>>

ScopeType(t) == CASE t = "mg" -> "MG" [] t = "sub" -> "Subscription" [] t = "rg" -> "ResourceGroup"

Failed(kind, scope) == Append(hist.failed, [kind |-> kind, scope |-> scope])

\* main up to the discovery call
Start ==
    /\ pc = "start"
    /\ IF args.include_scopes \cap {"mg", "sub", "rg"} # {}
       THEN pc' = "descendants" /\ url' = "first"
       ELSE pc' = "discovered" /\ url' = ""
    /\ UNCHANGED <<args, mgs, subs, fetched, idx, s_idx, rgs, rg_i, budgets, costs, monthly, fc,
                   rows, wb, reqlog, hist, ndev, abort>>
    /\ UNCHANGED <<reqVars, calc>>

\* the --subscription-ids filter, then the first scope
ApplyFilter ==
    /\ pc = "discovered"
    /\ LET kept == IF args.sub_filter # {}
                   THEN SelectSeq(subs, LAMBDA x : Lower(x.subscriptionId) \in args.sub_filter)
                   ELSE subs
       IN /\ subs' = kept
          /\ Leave(StartMGs(1, kept), <<>>)
    /\ UNCHANGED <<args, mgs, fetched, rows, wb, reqlog, hist, ndev, abort>>
    /\ UNCHANGED <<reqVars, calc>>

\* "if not mg_budgets: continue" and "if not rg_budgets: continue"; the
\* subscription loop has no such test
SkipsScope_AllTiers(t, got) == got = <<>>

SkipsScope(t, got) == got = <<>> /\ t # "sub"

\* the forecast asked before the monthly costs, which are then never asked
AfterBudgets_ForecastFirst(t) == P(t, "forecast")

\* the call after the budget listing: the monthly costs, whose loop makes no
\* request when months is 0, then the forecast
AfterBudgets(t) == IF args.months > 0 THEN P(t, "cost") ELSE P(t, "forecast")

\* list_budgets_at_scope for the scope of tier t: value is what it returned,
\* or the call raised exc and the handler put [] in its place
BudgetsStep(t, value, exc) ==
    /\ pc = P(t, "budgets")
    /\ reqlog' = Logged("budgets", CurScope(t), "", 0)
    /\ LET got == IF exc # "none" THEN <<>> ELSE value
       IN /\ hist' = [hist EXCEPT !.visited = Append(@, CurScope(t)),
                                  !.failed = IF exc # "none" THEN Failed("budgets", CurScope(t)) ELSE @,
                                  !.empty = IF got = <<>> THEN @ \cup {CurScope(t)} ELSE @]
          /\ IF exc # "none" /\ ~Catches(exc)
             THEN Uncaught(exc)
             ELSE /\ abort' = abort
                  /\ IF SkipsScope(t, got)
                     THEN Leave(NextScope(t), rgs)
                     ELSE /\ budgets' = got
                          /\ costs' = <<>>
                          /\ monthly' = <<>>
                          /\ fc' = None
                          /\ pc' = AfterBudgets(t)
                          /\ UNCHANGED <<idx, s_idx, rg_i, url, rgs>>
    /\ UNCHANGED <<args, mgs, subs, fetched, rows, wb>>
    /\ UNCHANGED <<reqVars, calc>>

\* [None] * months
AllNone == [i \in 1..args.months |-> None]

\* "except Exception: sub_monthly = [None] * args.months": the months already
\* answered are lost with the exception
OnCostError(got) == AllNone

\* one request of cost_query_last_months_scope: the month's sum joins costs;
\* after the last month the list is returned; an exception leaves the
\* function and the handler in main puts [None] * months in its place
CostStep(t, payload, exc) ==
    /\ pc = P(t, "cost")
    /\ reqlog' = Logged("cost", CurScope(t), "", Len(costs) + 1)
    /\ LET e == IF exc = "none" /\ CostRowsRaise(payload) THEN "IndexError" ELSE exc
       IN IF e # "none"
          THEN /\ hist' = [hist EXCEPT !.failed =
                              Failed(IF exc # "none" THEN "cost" ELSE "cost rows", CurScope(t))]
               /\ IF Catches(e)
                  THEN /\ monthly' = OnCostError(costs)
                       /\ costs' = <<>>
                       /\ pc' = P(t, "forecast")
                       /\ abort' = abort
                       /\ UNCHANGED <<idx, s_idx, rg_i, url, rgs, budgets, fc>>
                  ELSE Uncaught(e)
          ELSE LET c == Append(costs, Round2(SumRows(payload)))
               IN /\ hist' = hist
                  /\ abort' = abort
                  /\ UNCHANGED <<idx, s_idx, rg_i, url, rgs, budgets, fc>>
                  /\ IF Len(c) = args.months
                     THEN /\ monthly' = [i \in DOMAIN c |-> Some(c[i])]
                          /\ costs' = <<>>
                          /\ pc' = P(t, "forecast")
                     ELSE /\ monthly' = monthly
                          /\ costs' = c
                          /\ pc' = pc
    /\ UNCHANGED <<args, mgs, subs, fetched, rows, wb>>
    /\ UNCHANGED <<reqVars, calc>>

\* cost_forecast_current_month_scope for the scope: the total, or None when
\* the call raised
ForecastStep(t, payload, exc) ==
    /\ pc = P(t, "forecast")
    /\ reqlog' = Logged("forecast", CurScope(t), "", 0)
    /\ hist' = [hist EXCEPT !.failed = IF exc # "none" THEN Failed("forecast", CurScope(t)) ELSE @]
    /\ IF exc # "none" /\ ~Catches(exc)
       THEN Uncaught(exc)
       ELSE /\ fc' = IF exc # "none" THEN None ELSE Some(ForecastTotal(payload))
            /\ pc' = P(t, "emit")
            /\ abort' = abort
            /\ UNCHANGED <<idx, s_idx, rg_i, url, rgs, budgets, costs, monthly>>
    /\ UNCHANGED <<args, mgs, subs, fetched, rows, wb>>
    /\ UNCHANGED <<reqVars, calc>>

\* the row of a subscription that has no budget
NoBudgetRow(last_val, prev_two, forecast_total) ==
    Row("Subscription", CurScope("sub"), CurSub.displayName, CurSub.subscriptionId, "", "",
        None, None, last_val, prev_two, forecast_total, None, "", NoBudgetNote)

RowsOf(t) == CASE t = "mg" -> rows.mg_rows [] t = "sub" -> rows.sub_rows [] t = "rg" -> rows.rg_rows

WithRows(t, list) ==
    CASE t = "mg" -> [rows EXCEPT !.mg_rows = list]
      [] t = "sub" -> [rows EXCEPT !.sub_rows = list]
      [] t = "rg" -> [rows EXCEPT !.rg_rows = list]

\* "if sub_budgets: ... else:" the branch that appends the no-budget row
NoBudgetBranch_Always(bs) == TRUE

NoBudgetBranch(bs) == bs = <<>>

\* the rows of the scope: emit_budget_rows for each budget, or the no-budget
\* row of a subscription; an exception of emit_budget_rows is caught nowhere
EmitStep(t) ==
    /\ pc = P(t, "emit")
    /\ hist' = [hist EXCEPT !.listed = @ \cup {[scope |-> CurScope(t), budget |-> budgets[i]] :
                                                  i \in DOMAIN budgets}]
    /\ LET last == LastOf(monthly)
           prev2 == Prev2Of(monthly)
           r == EmitAll(budgets, RowsOf(t), ScopeType(t), CurScope(t),
                        IF t = "mg" THEN "" ELSE CurSub.displayName,
                        IF t = "mg" THEN "" ELSE CurSub.subscriptionId,
                        last, prev2, fc,
                        IF t = "rg" THEN rgs[rg_i] ELSE "")
           withBudgetRows == WithRows(t, r.rows)
           withAll == IF t = "sub" /\ NoBudgetBranch(budgets)
                      THEN [withBudgetRows EXCEPT !.sub_nobudget_rows =
                                Append(@, NoBudgetRow(last, prev2, fc))]
                      ELSE withBudgetRows
       IN IF r.raised
          THEN /\ rows' = withBudgetRows
               /\ Uncaught("emit_budget_rows")
          ELSE /\ rows' = withAll
               /\ abort' = abort
               /\ Leave(NextScope(t), rgs)
    /\ UNCHANGED <<args, mgs, subs, fetched, wb, reqlog, ndev>>
    /\ UNCHANGED <<reqVars, calc>>

\* one page of list_resource_groups; after the last page the --rg-names filter
RGListStep(page) ==
    /\ pc = "rg_list"
    /\ reqlog' = Logged("resourcegroups", CurScope("sub"), url, 0)
    /\ LET names == rgs \o SelectSeq(page.value, LAMBDA n : n # "")
       IN IF NextUrl(page) # ""
          THEN /\ rgs' = names
               /\ url' = NextUrl(page)
               /\ hist' = [hist EXCEPT !.pages = Paged("resourcegroups", CurScope("sub"), page)]
               /\ UNCHANGED <<pc, idx, s_idx, rg_i, budgets, costs, monthly, fc>>
          ELSE LET kept == IF args.rg_filter # {}
                           THEN SelectSeq(names, LAMBDA n : Lower(n) \in args.rg_filter)
                           ELSE names
               IN /\ hist' = [hist EXCEPT !.found = @ \o
                                 [i \in DOMAIN kept |-> CurScope("sub") \o <<"resourceGroups", kept[i]>>],
                                            !.pages = Paged("resourcegroups", CurScope("sub"), page)]
                  /\ Leave(StartRGs(1, kept), kept)
    /\ UNCHANGED <<args, mgs, subs, fetched, rows, wb, abort>>
    /\ UNCHANGED <<reqVars, calc>>

\* list_resource_groups raised: the handler in main goes on with rgs = []
RGListRaise(exc) ==
    /\ pc = "rg_list"
    /\ reqlog' = Logged("resourcegroups", CurScope("sub"), url, 0)
    /\ hist' = [hist EXCEPT !.failed = Failed("resourcegroups", CurScope("sub"))]
    /\ IF Catches(exc)
       THEN abort' = abort /\ Leave(StartRGs(1, <<>>), <<>>)
       ELSE Uncaught(exc)
    /\ UNCHANGED <<args, mgs, subs, fetched, rows, wb>>
    /\ UNCHANGED <<reqVars, calc>>

\* create_sheet for the tiers included, skipping empty row lists, then wb.save
WriteWorkbook ==
    /\ pc = "write"
    /\ LET sheet(title, list, tier) ==
               IF tier \in args.include_scopes /\ list # <<>> THEN <<title>> ELSE <<>>
       IN wb' = [saved |-> TRUE,
                 sheets |-> sheet("MG_Budgets", rows.mg_rows, "mg")
                            \o sheet("Sub_Budgets", rows.sub_rows, "sub")
                            \o sheet("Sub_NoBudget", rows.sub_nobudget_rows, "sub")
                            \o sheet("RG_Budgets", rows.rg_rows, "rg")]
    /\ pc' = "done"
    /\ UNCHANGED <<args, url, mgs, subs, fetched, idx, s_idx, rgs, rg_i, budgets, costs, monthly, fc,
                   rows, reqlog, hist, ndev, abort>>
    /\ UNCHANGED <<reqVars, calc>>

(***************************************************************************)
(* The remote side: each call is answered as the reference state says, or, *)
(* at most MaxDeviations times in a run, otherwise or not at all.          *)
(***************************************************************************)

Answers(ref, others) == IF ndev < MaxDeviations THEN {ref} \cup others ELSE {ref}

Counted(a, ref) == ndev' = IF a = ref THEN ndev ELSE ndev + 1

Raises == ndev < MaxDeviations /\ ndev' = ndev + 1

Descendants ==
    /\ pc = "descendants"
    /\ \E page \in Answers(RefDescendants(url), DescendantsAnswers) :
           DescendantsPage(page) /\ Counted(page, RefDescendants(url))

DescendantsRaise == \E exc \in ErrorTypes : DescendantsFail(exc) /\ Raises

MGBudgets ==
    /\ pc = "mg_budgets"
    /\ \E v \in Answers(RefBudgets(CurScope("mg")), BudgetLists) :
           BudgetsStep("mg", v, "none") /\ Counted(v, RefBudgets(CurScope("mg")))

MGBudgetsRaise == \E exc \in ErrorTypes : BudgetsStep("mg", <<>>, exc) /\ Raises

MGCost ==
    /\ pc = "mg_cost"
    /\ \E v \in Answers(RefCost(CurScope("mg"), Len(costs) + 1), CostAnswers) :
           CostStep("mg", v, "none") /\ Counted(v, RefCost(CurScope("mg"), Len(costs) + 1))

MGCostRaise == \E exc \in ErrorTypes : CostStep("mg", <<>>, exc) /\ Raises

MGForecast ==
    /\ pc = "mg_forecast"
    /\ \E v \in Answers(RefForecast(CurScope("mg")), ForecastAnswers) :
           ForecastStep("mg", v, "none") /\ Counted(v, RefForecast(CurScope("mg")))

MGForecastRaise == \E exc \in ErrorTypes : ForecastStep("mg", FlaggedForecast, exc) /\ Raises

MGEmit == EmitStep("mg")

SubBudgets ==
    /\ pc = "sub_budgets"
    /\ \E v \in Answers(RefBudgets(CurScope("sub")), BudgetLists) :
           BudgetsStep("sub", v, "none") /\ Counted(v, RefBudgets(CurScope("sub")))

SubBudgetsRaise == \E exc \in ErrorTypes : BudgetsStep("sub", <<>>, exc) /\ Raises

SubCost ==
    /\ pc = "sub_cost"
    /\ \E v \in Answers(RefCost(CurScope("sub"), Len(costs) + 1), CostAnswers) :
           CostStep("sub", v, "none") /\ Counted(v, RefCost(CurScope("sub"), Len(costs) + 1))

SubCostRaise == \E exc \in ErrorTypes : CostStep("sub", <<>>, exc) /\ Raises

SubForecast ==
    /\ pc = "sub_forecast"
    /\ \E v \in Answers(RefForecast(CurScope("sub")), ForecastAnswers) :
           ForecastStep("sub", v, "none") /\ Counted(v, RefForecast(CurScope("sub")))

SubForecastRaise == \E exc \in ErrorTypes : ForecastStep("sub", FlaggedForecast, exc) /\ Raises

SubEmit == EmitStep("sub")

RGList ==
    /\ pc = "rg_list"
    /\ \E page \in Answers(RefResourceGroups(CurSub.subscriptionId, url), ResourceGroupAnswers) :
           RGListStep(page) /\ Counted(page, RefResourceGroups(CurSub.subscriptionId, url))

RGListFail == \E exc \in ErrorTypes : RGListRaise(exc) /\ Raises

RGBudgets ==
    /\ pc = "rg_budgets"
    /\ \E v \in Answers(RefBudgets(CurScope("rg")), BudgetLists) :
           BudgetsStep("rg", v, "none") /\ Counted(v, RefBudgets(CurScope("rg")))

RGBudgetsRaise == \E exc \in ErrorTypes : BudgetsStep("rg", <<>>, exc) /\ Raises

RGCost ==
    /\ pc = "rg_cost"
    /\ \E v \in Answers(RefCost(CurScope("rg"), Len(costs) + 1), CostAnswers) :
           CostStep("rg", v, "none") /\ Counted(v, RefCost(CurScope("rg"), Len(costs) + 1))

RGCostRaise == \E exc \in ErrorTypes : CostStep("rg", <<>>, exc) /\ Raises

RGForecast ==
    /\ pc = "rg_forecast"
    /\ \E v \in Answers(RefForecast(CurScope("rg")), ForecastAnswers) :
           ForecastStep("rg", v, "none") /\ Counted(v, RefForecast(CurScope("rg")))

RGForecastRaise == \E exc \in ErrorTypes : ForecastStep("rg", FlaggedForecast, exc) /\ Raises

RGEmit == EmitStep("rg")

Next ==
    \/ Start
    \/ Descendants
    \/ DescendantsRaise
    \/ ApplyFilter
    \/ MGBudgets
    \/ MGBudgetsRaise
    \/ MGCost
    \/ MGCostRaise
    \/ MGForecast
    \/ MGForecastRaise
    \/ MGEmit
    \/ SubBudgets
    \/ SubBudgetsRaise
    \/ SubCost
    \/ SubCostRaise
    \/ SubForecast
    \/ SubForecastRaise
    \/ SubEmit
    \/ RGList
    \/ RGListFail
    \/ RGBudgets
    \/ RGBudgetsRaise
    \/ RGCost
    \/ RGCostRaise
    \/ RGForecast
    \/ RGForecastRaise
    \/ RGEmit
    \/ WriteWorkbook

Spec == Init /\ [][Next]_vars

\* discovery alone, the server free to answer any chain of pages
DiscPage ==
    /\ \E page \in DiscPages(fetched) : DescendantsPage(page)
    /\ UNCHANGED ndev

DiscRaise ==
    /\ \E exc \in ErrorTypes : DescendantsFail(exc)
    /\ UNCHANGED ndev

NextDisc == DiscPage \/ DiscRaise

SpecDisc == InitDisc /\ [][NextDisc]_vars

\* one call of do_request
NextReq == do_request

SpecReq == InitReq /\ [][NextReq]_vars

(***************************************************************************)
(* Properties of the request client (checked under SpecReq)                *)
(***************************************************************************)

\* the pure helpers, each called once on arguments drawn from bounded sets
Call(fn, x, y, prev, today, n) ==
    [fn |-> fn, x |-> x, y |-> y, prev |-> prev, today |-> today, n |-> n,
     out |-> <<>>, done |-> FALSE]

AccuracyCalls == {Call("budget_accuracy", b, a, <<>>, NoDate, 0) : b, a \in (0 - 2)..MaxAmount}

\* values compute_suggested_budget is called on: the hundreds, and 950
SuggestValues == {100 * k : k \in 0..MaxHundreds} \cup {950}

PrevValues == {0, 800, 900, 100 * MaxHundreds}

SuggestCalls ==
    {Call("compute_suggested_budget", v, 0, p, NoDate, 0) :
        v \in SuggestValues, p \in SeqsUpTo(PrevValues, 2)}

\* the days date.today() is drawn from: two years, one of them a leap year
Todays ==
    {Date(y, m, d) : y \in {2023, 2024}, m \in 1..12, d \in {1, 15, 28}}
        \cup {Date(y, m, DaysIn(y, m)) : y \in {2023, 2024}, m \in 1..12}

WindowCalls == {Call("cost_query_last_months_scope", 0, 0, <<>>, t, n) : t \in Todays, n \in 0..MaxWindows}

CalcInputs == AccuracyCalls \cup SuggestCalls \cup WindowCalls

InitCalc ==
    /\ ReqIdle
    /\ MainIdle
    /\ args = [include_scopes |-> {}, months |-> 0, sub_filter |-> {}, rg_filter |-> {}]
    /\ calc \in CalcInputs

Returns(fn, value) ==
    /\ calc.fn = fn
    /\ ~calc.done
    /\ calc' = [calc EXCEPT !.out = value, !.done = TRUE]
    /\ UNCHANGED <<reqVars, discVars, mainVars>>

CallAccuracy == Returns("budget_accuracy", budget_accuracy(calc.x, calc.y))

CallSuggested == Returns("compute_suggested_budget", compute_suggested_budget(calc.x, calc.prev))

CallWindows == Returns("cost_query_last_months_scope", TimePeriods(calc.today, calc.n))

NextCalc ==
    \/ CallAccuracy
    \/ CallSuggested
    \/ CallWindows

SpecCalc == InitCalc /\ [][NextCalc]_vars

\* the wire saw one more request in this step
Requested == rqState = "running" /\ net'.nreq = net.nreq + 1

\* every attempt so far ended in a timeout or in one of 429/500/502/503/504
OnlyTransient == net.nTimeout + net.nRetryStatus = net.nreq

\* C1: when every attempt of a call ends in a retryable status, the call
\* fails after exactly 7 requests and 6 sleeps: it is never answered, never
\* fails on an earlier request and never sends an 8th.
C1_RetryExhaustion ==
    (net.nreq > 0 /\ net.nRetryStatus = net.nreq) =>
        /\ net.nreq <= 7
        /\ rqState # "returned"
        /\ (rqState = "raised") <=> (net.nreq = 7)
        /\ (rqState = "raised") => (net.nsleep = 6 /\ err.type = "HTTPError")
        /\ (rqState = "running") => (net.nsleep = net.nreq)

C1_Witness ==
    /\ rqState = "raised"
    /\ net.nreq = 7
    /\ net.nRetryStatus = 7
    /\ net.lastOut.status = 503

\* C4: a response whose status is neither 2xx nor 429/500/502/503/504
\* (1xx, 3xx, other 4xx, other 5xx) makes the call fail on that attempt,
\* without a sleep and without a further request.
C4_OtherStatusFailsAtOnce ==
    /\ [][(/\ Requested
           /\ net'.lastOut.kind = "response"
           /\ ~Is2xx(net'.lastOut.status)
           /\ net'.lastOut.status \notin {429, 500, 502, 503, 504})
          => (rqState' = "raised" /\ net'.nsleep = net.nsleep)]_vars
    /\ [][rqState = "raised" => (rqState' = "raised" /\ net'.nreq = net.nreq)]_vars

\* C5: past the retry ceiling the failure is that of the last attempt: a
\* timeout re-raises the timeout, a retryable status raises an HTTP error
\* carrying that status, whatever mix of timeouts and statuses came before.
C5_FinalAttemptDecides ==
    (rqState = "raised" /\ net.nTimeout + net.nRetryStatus > 6) =>
        /\ net.lastOut.kind = "ReadTimeout" => err = [type |-> "ReadTimeout", status |-> 0]
        /\ net.lastOut.kind = "response" =>
              err = [type |-> "HTTPError", status |-> net.lastOut.status]

C5_Witness ==
    /\ rqState = "raised"
    /\ net.nTimeout >= 2
    /\ net.nRetryStatus >= 2
    /\ net.lastOut.kind = "response"
    /\ err.status = 429

FailedNow(kinds) ==
    /\ Len(hist'.failed) = Len(hist.failed) + 1
    /\ hist'.failed[Len(hist'.failed)].kind \in kinds

AllRows == rows.mg_rows \o rows.sub_rows \o rows.rg_rows \o rows.sub_nobudget_rows

Tier(scope) ==
    IF scope[1] = "managementGroups" THEN "mg" ELSE IF Len(scope) = 2 THEN "sub" ELSE "rg"

OfTier(seq, t) == SelectSeq(seq, LAMBDA sc : Tier(sc) = t)

MGScopes == [i \in DOMAIN mgs |-> <<"managementGroups", mgs[i].managementGroupId>>]

SubScopes == [i \in DOMAIN subs |-> <<"subscriptions", subs[i].subscriptionId>>]

\* C2: a failed budget listing, monthly-cost query or forecast query of one
\* scope does not end the run: the step leaves main running with that
\* scope's budgets empty, its monthly series all None or its forecast None,
\* the rows of the other scopes untouched; no exception of a request ever
\* ends main after discovery; and a run that returns has written the
\* workbook and has processed every discovered scope of the included
\* tiers, in discovery order.
C2_PerScopeIsolation ==
    /\ [][FailedNow({"budgets", "cost", "forecast"}) =>
            /\ pc' # "aborted"
            /\ abort' = "none"
            /\ rows' = rows
            /\ FailedNow({"budgets"}) => budgets' = <<>>
            /\ FailedNow({"cost"}) =>
                  (Len(monthly') = args.months /\ \A i \in DOMAIN monthly' : monthly'[i] = None)
            /\ FailedNow({"forecast"}) => fc' = None]_vars
    /\ [](abort \in {"none", "emit_budget_rows"} \cup
                    (IF \E i \in DOMAIN hist.failed : hist.failed[i].kind = "descendants"
                     THEN ErrorTypes ELSE {}))
    /\ [](pc = "done" =>
            /\ wb.saved
            /\ abort = "none"
            /\ OfTier(hist.visited, "mg") = (IF "mg" \in args.include_scopes THEN MGScopes ELSE <<>>)
            /\ OfTier(hist.visited, "sub") = (IF "sub" \in args.include_scopes THEN SubScopes ELSE <<>>)
            /\ OfTier(hist.visited, "rg") = hist.found)

C2_Witness ==
    /\ pc = "done"
    /\ wb.saved
    /\ hist.failed = <<[kind |-> "budgets", scope |-> <<"subscriptions", "sub1">>]>>
    /\ Len(hist.visited) >= 5
    /\ Len(rows.sub_nobudget_rows) = 2
    /\ rows.rg_rows # <<>>

\* C3: once a request of the descendants query has failed, main has ended
\* with that exception; the only requests ever issued are those of the
\* descendants query, there is no row and no workbook.
C3_DiscoveryFailureAborts ==
    (\E i \in DOMAIN hist.failed : hist.failed[i].kind = "descendants") =>
        /\ pc = "aborted"
        /\ abort \in ErrorTypes
        /\ \A i \in DOMAIN reqlog : reqlog[i].kind = "descendants"
        /\ rows = NoRows
        /\ ~wb.saved

C3_Witness ==
    /\ pc = "aborted"
    /\ abort = "ReadTimeout"
    /\ Len(reqlog) = 2
    /\ reqlog[2].page = "page2"
    /\ args.include_scopes = {"mg", "sub", "rg"}

\* C7: when the cost query of one month fails, the months already answered
\* stay in the series the scope is reported with: month j keeps its cost
\* and only the failed month is None.
C7_MonthsSurviveOneFailure ==
    [][FailedNow({"cost"}) =>
          \A j \in DOMAIN costs : j \in DOMAIN monthly' /\ monthly'[j] = Some(costs[j])]_vars

\* the notification entries of a budget that are objects
NDict(b) == Len(DictConditions(b.notifications))

RowsFor(e) == SelectSeq(AllRows, LAMBDA r : r.ScopeId = e.scope /\ r.BudgetName = e.budget.name)

\* C8: every budget handed to the row emission has max(1, number of
\* flattened conditions) rows, and a budget without notifications has one
\* row whose condition fields are empty.
C8_RowCount ==
    \A e \in hist.listed :
        /\ Len(RowsFor(e)) = Max(1, NDict(e.budget))
        /\ NDict(e.budget) = 0 =>
              \A i \in DOMAIN RowsFor(e) :
                  /\ RowsFor(e)[i].ConditionKey = ""
                  /\ RowsFor(e)[i].ThresholdType = ""
                  /\ RowsFor(e)[i].ThresholdPercent = None

BudgetRows == rows.mg_rows \o rows.sub_rows \o rows.rg_rows

HasRow(list, scope) == \E i \in DOMAIN list : list[i].ScopeId = scope

\* C9: no scope has both a row of a budget and a no-budget row; a scope has
\* at most one no-budget row; no-budget rows are rows of subscriptions; and
\* a management group or resource group without budgets has no row.
C9_NoBudgetRows ==
    /\ \A i \in DOMAIN rows.sub_nobudget_rows :
          LET r == rows.sub_nobudget_rows[i]
          IN /\ ~HasRow(BudgetRows, r.ScopeId)
             /\ \A j \in DOMAIN rows.sub_nobudget_rows :
                   rows.sub_nobudget_rows[j].ScopeId = r.ScopeId => j = i
             /\ r.ScopeType = "Subscription"
             /\ Tier(r.ScopeId) = "sub"
             /\ r.BudgetName = ""
    /\ \A i \in DOMAIN BudgetRows : BudgetRows[i].BudgetName # ""
    /\ \A sc \in hist.empty : Tier(sc) # "sub" => ~HasRow(AllRows, sc)

C9_Witness ==
    /\ pc = "done"
    /\ <<"managementGroups", "mgA">> \in hist.empty
    /\ <<"subscriptions", "SUB2">> \in hist.empty
    /\ <<"subscriptions", "sub1", "resourceGroups", "RG2">> \in hist.empty
    /\ HasRow(rows.sub_nobudget_rows, <<"subscriptions", "SUB2">>)
    /\ HasRow(rows.sub_rows, <<"subscriptions", "sub1">>)

AllItems == Concat(fetched)

IsAccountItem(it) == it.type \in {"/subscriptions", "/Subscriptions"} /\ it.name # ""

IsGroupItem(it) == it.type = "Microsoft.Management/managementGroups" /\ it.name # ""

\* the last item of its kind that carries the id
LastItem(isKind(_), id) ==
    LET at == {k \in DOMAIN AllItems : isKind(AllItems[k]) /\ AllItems[k].name = id}
    IN AllItems[CHOOSE k \in at : \A j \in at : j <= k]

IdsOf(isKind(_)) == {AllItems[k].name : k \in {j \in DOMAIN AllItems : isKind(AllItems[j])}}

\* C10: when discovery returns, each subscription id seen on the pages has
\* exactly one entry in the result and so has each management-group id,
\* whatever the number of its occurrences and pages; the entry carries the
\* fields of the id's last occurrence; and the result has no other entry
\* than these and the root management group.
C10_DiscoveryDedup ==
    pc = "discovered" =>
        /\ \A id \in IdsOf(IsAccountItem) :
              /\ Cardinality({i \in DOMAIN subs : subs[i].subscriptionId = id}) = 1
              /\ \A i \in DOMAIN subs : subs[i].subscriptionId = id =>
                    /\ subs[i].displayName = LastItem(IsAccountItem, id).displayName
                    /\ subs[i].tenantId = LastItem(IsAccountItem, id).tenantId
        /\ \A id \in IdsOf(IsGroupItem) :
              /\ Cardinality({i \in DOMAIN mgs : mgs[i].managementGroupId = id}) = 1
              /\ \A i \in DOMAIN mgs : mgs[i].managementGroupId = id =>
                    mgs[i].displayName = LastItem(IsGroupItem, id).displayName
        /\ \A i \in DOMAIN subs : subs[i].subscriptionId \in IdsOf(IsAccountItem)
        /\ \A i \in DOMAIN mgs : mgs[i].managementGroupId \in IdsOf(IsGroupItem) \cup {root_mg_id}
        /\ Cardinality({i \in DOMAIN mgs : mgs[i].managementGroupId = root_mg_id}) = 1

C10_Witness ==
    /\ pc = "discovered"
    /\ Len(fetched) = 2
    /\ \E i \in DOMAIN fetched[1], j \in DOMAIN fetched[2] :
          /\ fetched[1][i].name = "sub1"
          /\ fetched[2][j].name = "sub1"
          /\ fetched[1][i].displayName = "Alpha renamed"
          /\ fetched[2][j].displayName = "Alpha"
    /\ Len(subs) = 1
    /\ subs[1].displayName = "Alpha"

\* C11: when discovery returns, the result has a management group whose id
\* is the root id, whatever the pages held (no item at all, or no item of the
\* root); when no page listed the root, its displayName is the id.
C11_RootIncluded ==
    pc = "discovered" =>
        /\ \E i \in DOMAIN mgs : mgs[i].managementGroupId = root_mg_id
        /\ root_mg_id \notin IdsOf(IsGroupItem) =>
              \A i \in DOMAIN mgs : mgs[i].managementGroupId = root_mg_id =>
                  mgs[i].displayName = root_mg_id

C11_Witness ==
    /\ pc = "discovered"
    /\ AllItems # <<>>
    /\ root_mg_id \notin IdsOf(IsGroupItem)
    /\ "mgA" \in IdsOf(IsGroupItem)
    /\ Len(mgs) = 2
    /\ mgs[2] = [managementGroupId |-> root_mg_id, displayName |-> root_mg_id]

\* a request of one of the kinds is issued in this step
RequestedNow(kinds) ==
    /\ Len(reqlog') = Len(reqlog) + 1
    /\ reqlog'[Len(reqlog')].kind \in kinds

\* a page of a paged listing is answered in this step
PageNow == Len(hist'.pages) = Len(hist.pages) + 1

PagesOf(kind, scope) == SelectSeq(hist.pages, LAMBDA p : p.kind = kind /\ p.scope = scope)

ItemsOf(ps) == Concat([i \in DOMAIN ps |-> ps[i].value])

\* the ids of a sequence, each at the place of its first occurrence
RECURSIVE KeepFirst(_, _)
KeepFirst(ids, seen) ==
    IF ids = <<>> THEN <<>>
    ELSE IF Head(ids) \in seen THEN KeepFirst(Tail(ids), seen)
         ELSE <<Head(ids)>> \o KeepFirst(Tail(ids), seen \cup {Head(ids)})

NamesOf(items) == [i \in DOMAIN items |-> items[i].name]

\* C12: a paged listing (descendants, resource groups) asks for the first
\* page, then for exactly the nextLink of the page before; it goes on while
\* the page answered has a nextLink and ends at the first page that has none,
\* so that no request follows that page; the resource-group names collected
\* are the names of the pages in page order and in-page order, and the
\* subscriptions discovered stand in the order their ids first appear.
C12_Pagination ==
    /\ [][RequestedNow({"descendants", "resourcegroups"}) =>
            LET r == reqlog'[Len(reqlog')]
                open == /\ hist.pages # <<>>
                        /\ hist.pages[Len(hist.pages)].kind = r.kind
                        /\ hist.pages[Len(hist.pages)].scope = r.scope
            IN IF open
               THEN /\ hist.pages[Len(hist.pages)].nextLink # ""
                    /\ r.page = hist.pages[Len(hist.pages)].nextLink
               ELSE r.page = "first"]_vars
    /\ [][PageNow =>
            LET p == hist'.pages[Len(hist'.pages)]
            IN /\ RequestedNow({p.kind})
               /\ p.nextLink # "" => pc' = pc
               /\ p.nextLink = "" => pc' # pc]_vars
    /\ [](pc = "rg_list" =>
            rgs = SelectSeq(ItemsOf(PagesOf("resourcegroups", CurScope("sub"))), LAMBDA n : n # ""))
    /\ [][(PageNow /\ pc = "rg_list" /\ pc' # "rg_list") =>
            LET all == SelectSeq(ItemsOf(SelectSeq(hist'.pages,
                           LAMBDA p : p.kind = "resourcegroups" /\ p.scope = CurScope("sub"))),
                           LAMBDA n : n # "")
                kept == IF args.rg_filter = {} THEN all
                        ELSE SelectSeq(all, LAMBDA n : Lower(n) \in args.rg_filter)
            IN hist'.found = hist.found \o
                   [i \in DOMAIN kept |-> CurScope("sub") \o <<"resourceGroups", kept[i]>>]]_vars
    /\ [](pc = "discovered" =>
            LET items == ItemsOf(PagesOf("descendants", <<"managementGroups", root_mg_id>>))
            IN [i \in DOMAIN subs |-> subs[i].subscriptionId]
                   = KeepFirst(NamesOf(SelectSeq(items, IsAccountItem)), {}))

C12_Witness ==
    /\ pc = "done"
    /\ args.rg_filter = {}
    /\ Len(PagesOf("descendants", <<"managementGroups", root_mg_id>>)) = 2
    /\ Len(PagesOf("resourcegroups", <<"subscriptions", "sub1">>)) = 2
    /\ \E i \in DOMAIN reqlog : reqlog[i].kind = "resourcegroups" /\ reqlog[i].page = "page2"
    /\ SubSeq(hist.found, 1, 2) = << <<"subscriptions", "sub1", "resourceGroups", "rg1">>,
                                     <<"subscriptions", "sub1", "resourceGroups", "RG2">> >>

\* a request that reads: a GET, or a POST of a query to Cost Management
ReadsOnly(r) ==
    \/ r.method = "GET" /\ r.api \in {"Microsoft.Management/managementGroups/descendants",
                                      "resourcegroups", "Microsoft.Consumption/budgets"}
    \/ r.method = "POST" /\ r.api = "Microsoft.CostManagement/query"

C14_DataShapeNeverRaised ==
    pc = "aborted" => \E i \in DOMAIN hist.failed : hist.failed[i].kind = "descendants"

\* C15: a failed listing of the resource groups of a subscription ends main
\* with the exception of the request; it is not replaced by an empty list.
C15_ResourceGroupFailurePropagates ==
    [][FailedNow({"resourcegroups"}) => (pc' = "aborted" /\ abort' \in ErrorTypes)]_vars

\* the row's condition is a forecast condition, whatever the case of its type
ForecastRow(r) == r.ThresholdType \in {Str("forecast"), Str("forecasted"), Str("Forecasted"), Str("FORECAST")}

\* the row has a threshold that is a number
NumericThreshold(r) == r.ThresholdPercent # None /\ r.ThresholdPercent.t = "num"

\* C16: in every row, ForecastConditionWillTrigger is set only for a
\* condition whose type starts with "forecast" in any case; for such a
\* condition it is True exactly when the row's forecast percent of budget
\* is at least the threshold, False exactly when it is smaller, and empty
\* when the percent or the threshold is missing or not a number.
C16_ForecastTrigger ==
    \A i \in DOMAIN AllRows :
        LET r == AllRows[i]
            w == r.ForecastConditionWillTrigger
            p == r.ForecastPercentOfBudget
        IN /\ w \in {"", "True", "False"}
           /\ w # "" => ForecastRow(r)
           /\ (ForecastRow(r) /\ p # None /\ NumericThreshold(r)) =>
                 /\ w = "True" <=> p[1] >= r.ThresholdPercent.n
                 /\ w = "False" <=> p[1] < r.ThresholdPercent.n
           /\ (ForecastRow(r) /\ (p = None \/ ~NumericThreshold(r))) => w = ""

C16_Witness ==
    /\ pc = "done"
    /\ \E i \in DOMAIN AllRows :
          /\ AllRows[i].ForecastConditionWillTrigger = "True"
          /\ AllRows[i].ForecastPercentOfBudget = Some(AllRows[i].ThresholdPercent.n)
    /\ \E i \in DOMAIN AllRows : AllRows[i].ForecastConditionWillTrigger = "False"
    /\ \E i \in DOMAIN AllRows :
          /\ ForecastRow(AllRows[i])
          /\ AllRows[i].ThresholdPercent = Str("")
          /\ AllRows[i].ForecastPercentOfBudget # None
          /\ AllRows[i].ForecastConditionWillTrigger = ""
    /\ \E i \in DOMAIN AllRows :
          /\ AllRows[i].ThresholdType = Str("Actual")
          /\ AllRows[i].ForecastPercentOfBudget # None

\* the call of the helper has returned
Returned(fn) == calc.fn = fn /\ calc.done

\* two fractions are the same number
SameFrac(p, q) == p.num * q.den = q.num * p.den

\* C17: budget_accuracy(b, a) is 1 when b and a are both <= 0, 0 when
\* exactly one is, 1 when b = a > 0 and 1 - |b - a| / max(b, a) otherwise;
\* it lies in [0, 1] and is the same for (a, b).
C17_BudgetAccuracy ==
    Returned("budget_accuracy") =>
        LET b == calc.x
            a == calc.y
            r == calc.out
        IN /\ r.den > 0
           /\ (b <= 0 /\ a <= 0) => SameFrac(r, Frac(1, 1))
           /\ ((b <= 0) # (a <= 0)) => SameFrac(r, Frac(0, 1))
           /\ (b = a /\ a > 0) => SameFrac(r, Frac(1, 1))
           /\ (b > 0 /\ a > 0) =>
                 r.num * Max(b, a) = r.den * (Max(b, a) - Abs(b - a))
           /\ 0 <= r.num /\ r.num <= r.den
           /\ SameFrac(r, budget_accuracy(a, b))

C17_Witness ==
    /\ Returned("budget_accuracy")
    /\ calc.x = 2
    /\ calc.y = 3
    /\ SameFrac(calc.out, Frac(2, 3))

\* C18: compute_suggested_budget(value, prev_two) is the smallest multiple
\* of 100 that is at least 1.10 times the larger of value and the mean of
\* value and prev_two: a multiple of 100, not below that product, and less
\* than 100 above it.
C18_SuggestedBudget ==
    Returned("compute_suggested_budget") =>
        LET n == 1 + Len(calc.prev)
            total == calc.x + Sum(calc.prev)
            num == IF calc.x * n >= total THEN calc.x * n ELSE total
            r == calc.out
        IN /\ r % 100 = 0
           /\ r * 10 * n >= 11 * num
           /\ (r - 100) * 10 * n < 11 * num

\* months counted from year 0
MonthIndex(dt) == dt.y * 12 + (dt.m - 1)

\* a date precedes another
Before(a, b) == a.y < b.y \/ (a.y = b.y /\ (a.m < b.m \/ (a.m = b.m /\ a.d < b.d)))

\* C19: for today in month M and n >= 0 the cost query asks for n windows;
\* the k-th starts on the first day of month M-k and ends before the first
\* day of month M-k+1, so it covers the month to its last day; each window
\* ends where the one asked before it starts, and every window lies before
\* the first day of the current month, across the turn of a year.
C19_MonthlyWindows ==
    Returned("cost_query_last_months_scope") =>
        LET w == calc.out
            t == calc.today
        IN /\ Len(w) = calc.n
           /\ \A k \in DOMAIN w :
                 /\ w[k].from.d = 1
                 /\ MonthIndex(w[k].from) = MonthIndex(t) - k
                 /\ w[k].to.d = 1
                 /\ MonthIndex(w[k].to) = MonthIndex(t) - k + 1
                 /\ MinusDay(w[k].to) = Date(w[k].from.y, w[k].from.m, DaysIn(w[k].from.y, w[k].from.m))
                 /\ Before(w[k].from, w[k].to)
                 /\ ~Before(Date(t.y, t.m, 1), w[k].to)
                 /\ k > 1 => w[k].to = w[k - 1].from

C19_Witness ==
    /\ Returned("cost_query_last_months_scope")
    /\ calc.today = Date(2024, 3, 31)
    /\ calc.n = 3
    /\ calc.out = <<[from |-> Date(2024, 2, 1), to |-> Date(2024, 3, 1)],
                    [from |-> Date(2024, 1, 1), to |-> Date(2024, 2, 1)],
                    [from |-> Date(2023, 12, 1), to |-> Date(2024, 1, 1)]>>

ScopeKinds == {"budgets", "cost", "forecast"}

\* C20: a step issues at most one request, which has completed when the
\* step ends; the budget listing of a scope is the first request of that
\* scope and comes after every request of the scopes before it; each
\* monthly-cost request follows the budget listing or the cost request of
\* the month before of the same scope; and the forecast request follows the
\* last cost request of the same scope (the budget listing when no month is
\* asked for).
C20_Sequential ==
    /\ [][Len(reqlog') \in {Len(reqlog), Len(reqlog) + 1}
          /\ SubSeq(reqlog', 1, Len(reqlog)) = reqlog]_vars
    /\ [][RequestedNow(ScopeKinds) =>
            LET r == reqlog'[Len(reqlog')]
                prev == reqlog[Len(reqlog)]
                costFailed == /\ hist.failed # <<>>
                              /\ hist.failed[Len(hist.failed)].kind \in {"cost", "cost rows"}
                              /\ hist.failed[Len(hist.failed)].scope = r.scope
            IN /\ reqlog # <<>>
               /\ r.kind = "budgets" =>
                     \A i \in DOMAIN reqlog :
                         reqlog[i].kind \in ScopeKinds => reqlog[i].scope # r.scope
               /\ r.kind = "cost" =>
                     /\ prev.scope = r.scope
                     /\ IF r.month = 1 THEN prev.kind = "budgets"
                        ELSE prev.kind = "cost" /\ prev.month = r.month - 1
               /\ r.kind = "forecast" =>
                     /\ prev.scope = r.scope
                     /\ IF args.months = 0 THEN prev.kind = "budgets"
                        ELSE prev.kind = "cost" /\ (prev.month = args.months \/ costFailed)]_vars

C20_Witness ==
    /\ pc = "done"
    /\ args.months = MaxMonths
    /\ args.include_scopes = {"mg", "sub", "rg"}
    /\ hist.failed = <<[kind |-> "cost", scope |-> <<"subscriptions", "sub1">>]>>
    /\ Cardinality({i \in DOMAIN reqlog : reqlog[i].kind = "forecast"}) >= 4

(***************************************************************************)
(* Properties of the row collections and of the requests made per tier     *)
(***************************************************************************)

\* the place of the first occurrence of x in seq
Pos(seq, x) == CHOOSE i \in DOMAIN seq : seq[i] = x /\ \A j \in 1..(i - 1) : seq[j] # x

DescendantsItems == ItemsOf(PagesOf("descendants", <<"managementGroups", root_mg_id>>))

\* the management groups in the order their ids first appear on the pages of
\* the descendants query, the root last when no page lists it
DiscoveredMGs ==
    LET ids == KeepFirst(NamesOf(SelectSeq(DescendantsItems, IsGroupItem)), {})
        all == IF \E i \in DOMAIN ids : ids[i] = root_mg_id THEN ids ELSE Append(ids, root_mg_id)
    IN [i \in DOMAIN all |-> <<"managementGroups", all[i]>>]

\* the subscriptions in the order their ids first appear, less those the
\* --subscription-ids filter drops
DiscoveredSubs ==
    LET ids == KeepFirst(NamesOf(SelectSeq(DescendantsItems, IsAccountItem)), {})
        kept == IF args.sub_filter # {}
                THEN SelectSeq(ids, LAMBDA x : Lower(x) \in args.sub_filter)
                ELSE ids
    IN [i \in DOMAIN kept |-> <<"subscriptions", kept[i]>>]

\* the rows of list stand in the order of discovered, and the rows of one
\* budget of one scope stand together
InOrder(list, discovered) ==
    /\ \A i \in DOMAIN list : \E k \in DOMAIN discovered : discovered[k] = list[i].ScopeId
    /\ \A i, j \in DOMAIN list :
          i < j => Pos(discovered, list[i].ScopeId) <= Pos(discovered, list[j].ScopeId)
    /\ \A i, j \in DOMAIN list :
          (i < j /\ list[i].ScopeId = list[j].ScopeId /\ list[i].BudgetName = list[j].BudgetName) =>
              \A k \in i..j : list[k].ScopeId = list[i].ScopeId /\ list[k].BudgetName = list[i].BudgetName

\* every row of list is a row of tier t
OwnTier(list, t) ==
    \A i \in DOMAIN list :
        /\ list[i].ScopeType = ScopeType(t)
        /\ list[i].ScopeId # <<>>
        /\ Tier(list[i].ScopeId) = t

\* C21: in each of the four row collections the rows of a scope discovered
\* earlier stand before the rows of a scope discovered later: management
\* groups and subscriptions in the order their ids first appear on the
\* descendants pages (the root last when it is not listed), resource groups
\* in the order of the listings, subscription by subscription; the rows of
\* one budget stand together; and every row is in the collection of its
\* ScopeType and has a ScopeId.
C21_RowsInDiscoveryOrder ==
    /\ InOrder(rows.mg_rows, DiscoveredMGs)
    /\ InOrder(rows.sub_rows, DiscoveredSubs)
    /\ InOrder(rows.sub_nobudget_rows, DiscoveredSubs)
    /\ InOrder(rows.rg_rows, hist.found)
    /\ \A i, j \in DOMAIN hist.found :
          i < j => Pos(DiscoveredSubs, SubSeq(hist.found[i], 1, 2))
                      <= Pos(DiscoveredSubs, SubSeq(hist.found[j], 1, 2))
    /\ OwnTier(rows.mg_rows, "mg")
    /\ OwnTier(rows.sub_rows, "sub")
    /\ OwnTier(rows.sub_nobudget_rows, "sub")
    /\ OwnTier(rows.rg_rows, "rg")

C21_Witness ==
    /\ pc = "done"
    /\ Len(rows.mg_rows) = 3
    /\ Len(rows.sub_rows) = 5
    /\ rows.sub_rows[1].ScopeId = <<"subscriptions", "sub1">>
    /\ rows.sub_rows[3].ScopeId = <<"subscriptions", "SUB2">>
    /\ Len(rows.rg_rows) = 4
    /\ rows.rg_rows[1].ScopeId = <<"subscriptions", "sub1", "resourceGroups", "rg1">>
    /\ rows.rg_rows[4].ScopeId = <<"subscriptions", "SUB2", "resourceGroups", "rg1">>

(***************************************************************************)
(* Properties of the retry delay                                           *)
(***************************************************************************)

\* do_request sleeps in this step: k is the retry the sleep precedes, o the
\* failed attempt, s the seconds slept
SleptNow == net'.nsleep = net.nsleep + 1

\* the Retry-After texts that denote a number, in thousandths of a second
NumericTexts == {"0", "5", "120", "-3", "1.5"}

Thousandths(t) ==
    CASE t = "0" -> 0 [] t = "5" -> 5000 [] t = "120" -> 120000 [] t = "-3" -> 0 - 3000
      [] t = "1.5" -> 1500

Clamp(v, lo, hi) == IF v < lo THEN lo ELSE IF v > hi THEN hi ELSE v

\* 2, 4, 8, 16, 30, 30
ExponentialDelay == <<2, 4, 8, 16, 30, 30>>

\* C22 as stated: before the k-th retry the client sleeps clamp(v, 1, 60)
\* seconds whenever the failed response supplied a Retry-After value v, and
\* min(2^k, 30) seconds when it supplied none or the attempt timed out.
C22_RetryDelayOfAnyValue ==
    [][SleptNow =>
          LET o == net'.lastOut
              s == net'.lastSleep
          IN /\ (o.kind = "response" /\ o.retryAfter \in NumericTexts) =>
                    1000 * s = Clamp(Thousandths(o.retryAfter), 1000, 60000)
             /\ (o.kind = "ReadTimeout" \/ o.retryAfter \in {NoHeader, ""}) =>
                    s = ExponentialDelay[attempt']]_vars

\* C22, amended: every retry is preceded by one sleep, the k-th by
\* clamp(v, 1, 60) seconds when the failed response carried a Retry-After
\* header that is the text of an integer v, and by min(2^k, 30) seconds
\* otherwise: after a timeout, without the header, with an empty header and
\* with a header that is not an integer (a decimal fraction, an HTTP-date);
\* k is 1..6, every delay is between 1 and 60 seconds and the delays of the
\* second kind are 2, 4, 8, 16, 30, 30.
C22_RetryDelay ==
    /\ [][SleptNow =>
            LET o == net'.lastOut
                s == net'.lastSleep
                k == attempt'
            IN /\ k \in 1..6
               /\ k = net'.nsleep
               /\ rqState' = "running"
               /\ 1 <= s /\ s <= 60
               /\ IF o.kind = "response" /\ o.retryAfter \in IntTexts
                  THEN s = Clamp(IntOf(o.retryAfter), 1, 60)
                  ELSE s = ExponentialDelay[k]]_vars
    /\ [][(net'.nreq = net.nreq + 1 /\ net.nreq > 0) => net.nsleep = net.nreq]_vars

C22_Witness ==
    /\ rqState = "running"
    /\ attempt = 6
    /\ net.nsleep = 6
    /\ net.lastOut.status = 503
    /\ net.lastOut.retryAfter = "120"
    /\ net.lastSleep = 60

\* the budget listing of the scope raised
ListingFailed(scope) ==
    \E k \in DOMAIN hist.failed : hist.failed[k] = [kind |-> "budgets", scope |-> scope]

\* C23: a subscription has a no-budget row only if its budget listing
\* succeeded and returned no budget: a subscription whose budget listing
\* failed has no such row.
C23_NoBudgetRowOnlyAfterEmptyListing ==
    \A i \in DOMAIN rows.sub_nobudget_rows :
        LET scope == rows.sub_nobudget_rows[i].ScopeId
        IN /\ scope \in hist.empty
           /\ ~ListingFailed(scope)

\* the positions in the log of the requests of one of the kinds for the scope
RequestsOf(kinds, scope) ==
    {i \in DOMAIN reqlog : reqlog[i].kind \in kinds /\ reqlog[i].scope = scope}

CostFailed(scope) ==
    \E k \in DOMAIN hist.failed :
        hist.failed[k].kind \in {"cost", "cost rows"} /\ hist.failed[k].scope = scope

\* C24: no monthly-cost and no forecast request is ever made for a management
\* group or a resource group whose budget listing was empty or failed; for a
\* subscription of an included subscription tier the budget listing is
\* always followed by the monthly-cost requests (all of them unless one
\* fails, none when no month is asked for) and the forecast request, budgets
\* or not; and no budget, cost or forecast request is made for a scope of a
\* tier that is not included, or of a subscription the --subscription-ids
\* filter leaves out.
C24_RequestEconomy ==
    /\ [](\A i \in DOMAIN reqlog :
            LET r == reqlog[i]
            IN /\ (r.kind \in {"cost", "forecast"} /\ Tier(r.scope) \in {"mg", "rg"}) =>
                      r.scope \notin hist.empty
               /\ r.kind \in {"budgets", "cost", "forecast"} =>
                      /\ Tier(r.scope) \in args.include_scopes
                      /\ (Tier(r.scope) \in {"sub", "rg"} /\ args.sub_filter # {}) =>
                            Lower(r.scope[2]) \in args.sub_filter)
    /\ [][RequestedNow({"budgets"}) =>
            LET r == reqlog'[Len(reqlog')]
            IN IF Tier(r.scope) = "sub"
               THEN pc' = (IF args.months > 0 THEN "sub_cost" ELSE "sub_forecast")
               ELSE r.scope \in hist'.empty => pc' \notin {P(Tier(r.scope), "cost"), P(Tier(r.scope), "forecast"), P(Tier(r.scope), "emit")}]_vars
    /\ [](pc = "sub_emit" =>
            /\ RequestsOf({"forecast"}, CurScope("sub")) # {}
            /\ ~CostFailed(CurScope("sub")) =>
                  Cardinality(RequestsOf({"cost"}, CurScope("sub"))) = args.months
            /\ args.months > 0 => RequestsOf({"cost"}, CurScope("sub")) # {})

C24_Witness ==
    /\ pc = "done"
    /\ args.include_scopes = {"mg", "sub"}
    /\ args.sub_filter = {"sub2"}
    /\ args.months = MaxMonths
    /\ <<"managementGroups", "mgA">> \in hist.empty
    /\ RequestsOf({"budgets"}, <<"managementGroups", "mgA">>) # {}
    /\ RequestsOf({"cost", "forecast"}, <<"managementGroups", "mgA">>) = {}
    /\ <<"subscriptions", "SUB2">> \in hist.empty
    /\ Cardinality(RequestsOf({"cost"}, <<"subscriptions", "SUB2">>)) = MaxMonths
    /\ RequestsOf({"forecast"}, <<"subscriptions", "SUB2">>) # {}
    /\ RequestsOf({"budgets", "cost", "forecast"}, <<"subscriptions", "sub1">>) = {}

====
